---- MODULE Spec2Model ----
(***************************************************************************)
(* YouTube video summarizer (src/untitled31.py): a Streamlit script that   *)
(* extracts a video id from a link, fetches the transcript, and asks a     *)
(* generative model for a summary.                                         *)
(*                                                                         *)
(* Text is modelled as a sequence of one-character strings, so that the    *)
(* regular expression, the joins and the lengths are computed as the code  *)
(* computes them.  Error messages are sequences of phrases (one string per *)
(* phrase); "x in str(e)" is containment of a phrase sequence.             *)
(***************************************************************************)
EXTENDS Integers, Sequences, FiniteSets, TLC

VARIABLES
    keyPresent,       \* "GEMINI_API_KEY" is in st.secrets
    phase,            \* where the script run stands
    clicked,          \* st.button's value in the latest script run
    youtube_link,     \* value of the st.text_input widget
    cache,            \* st.cache_data of extract_transcript_details: link -> text
    remote,           \* the transcript service: video id -> what it holds
    inflight,         \* the remote call the script is blocked on
    video_id,         \* video_id of the transcript call in flight
    transcript_text,  \* transcript_text of the handler
    display,          \* elements written to the page by the latest run
    tCalls,           \* get_transcript calls issued by the latest run
    gCalls,           \* generate_content calls issued by the latest run
    failKind,         \* kind of the failure that ended the latest run
    errMsg,           \* str(e) seen by the handler's except branch
    svcKind,          \* how the latest run's transcript was answered
    returned,         \* per video id: texts returned since its remote changed
    stale,            \* per video id: remote changed while a link was memoized
    xIn,              \* the link given to the extraction, by its parts
    xResult,          \* what the extraction returned for it
    fIn,              \* two failing fetches
    fOut              \* what the caller received for each

appVars == <<keyPresent, phase, clicked, youtube_link, cache, remote, inflight,
             video_id, transcript_text, display, tCalls, gCalls, failKind,
             errMsg, svcKind, returned, stale>>
pureVars == <<xIn, xResult, fIn, fOut>>
vars == <<appVars, pureVars>>

----------------------------------------------------------------------------
(* Characters and the literals of the regular expression (line 38).        *)

IdLen == 11

Digits == {"0", "1", "2", "3", "4", "5", "6", "7", "8", "9"}

Letters ==
    {"a", "b", "c", "d", "e", "f", "g", "h", "i", "j", "k", "l", "m",
     "n", "o", "p", "q", "r", "s", "t", "u", "v", "w", "x", "y", "z",
     "A", "B", "C", "D", "E", "F", "G", "H", "I", "J", "K", "L", "M",
     "N", "O", "P", "Q", "R", "S", "T", "U", "V", "W", "X", "Y", "Z"}

\* [a-zA-Z0-9_-]
IdentChars == Letters \cup Digits \cup {"_", "-"}

\* v=
LitV == <<"v", "=">>

\* youtu\.be\/
LitShort == <<"y", "o", "u", "t", "u", ".", "b", "e", "/">>

\* http:\/\/googleusercontent\.com\/youtube\.com\/
LitProxy ==
    <<"h", "t", "t", "p", ":", "/", "/",
      "g", "o", "o", "g", "l", "e", "u", "s", "e", "r",
      "c", "o", "n", "t", "e", "n", "t", ".", "c", "o", "m", "/",
      "y", "o", "u", "t", "u", "b", "e", ".", "c", "o", "m", "/">>

HasAt(s, i, lit) ==
    /\ i + Len(lit) - 1 <= Len(s)
    /\ SubSeq(s, i, i + Len(lit) - 1) = lit

\* ([a-zA-Z0-9_-]{11}) matches at position i
IdentRun(s, i) ==
    /\ i + IdLen - 1 <= Len(s)
    /\ \A k \in i..(i + IdLen - 1) : s[k] \in IdentChars

\* the lengths \d+ can take at position i
DigitRuns(s, i) ==
    {n \in 1..Len(s) : \A k \in i..(i + n - 1) : k <= Len(s) /\ s[k] \in Digits}

Max(S) == CHOOSE m \in S : \A n \in S : n <= m
Min(S) == CHOOSE m \in S : \A n \in S : m <= n

\* Where group 1 starts when the pattern matches at position i; 0 when it does
\* not.  \d+ is greedy and backtracks: the longest run of digits that leaves
\* eleven identifier characters after it.
GroupStart(s, i) ==
    IF HasAt(s, i, LitV) /\ IdentRun(s, i + Len(LitV))
    THEN i + Len(LitV)
    ELSE IF HasAt(s, i, LitShort) /\ IdentRun(s, i + Len(LitShort))
    THEN i + Len(LitShort)
    ELSE IF HasAt(s, i, LitProxy)
    THEN LET d == i + Len(LitProxy)
             ks == {k \in DigitRuns(s, d) : IdentRun(s, d + k)}
         IN  IF ks = {} THEN 0 ELSE d + Max(ks)
    ELSE 0

NoMatch == [ok |-> FALSE, id |-> <<>>]

\* re.search(...): the leftmost match; video_id_match.group(1)
ExtractVideoId(link) ==
    LET at == {i \in 1..Len(link) : GroupStart(link, i) # 0}
    IN  IF at = {}
        THEN NoMatch
        ELSE LET g == GroupStart(link, Min(at))
             IN  [ok |-> TRUE, id |-> SubSeq(link, g, g + IdLen - 1)]

----------------------------------------------------------------------------
(* Texts and messages.                                                     *)

\* " ".join([item["text"] for item in transcript_list])  (line 47)
RECURSIVE JoinText(_)
JoinText(segs) ==
    IF segs = <<>> THEN <<>>
    ELSE IF Len(segs) = 1 THEN segs[1]
    ELSE segs[1] \o <<" ">> \o JoinText(Tail(segs))

\* the ValueError of line 40
MsgInvalid ==
    <<"Invalid YouTube URL", " format provided. Please use a valid YouTube link.">>

\* the message of line 52
MsgDisabled ==
    <<"Transcripts are disabled", " for this video by the uploader.">>

\* the message of line 55
MsgNoEnglish ==
    <<"No English transcript found", " for this video.">>

\* the wrapper without its {e}
WrapFetchErrorNoCause(cause) == <<"Failed to fetch transcript: ">>

\* f"Failed to fetch transcript: {e}"  (line 58)
WrapFetchError(cause) == <<"Failed to fetch transcript: ">> \o cause

\* f"Gemini API call failed: {e}"  (line 80)
WrapGeminiError(cause) == <<"Gemini API call failed", ": ">> \o cause

\* phrase in str(e)
Contains(msg, phrase) == \E i \in 1..Len(msg) : msg[i] = phrase

Ok(text) == [ok |-> TRUE, text |-> text, msg |-> <<>>]
Err(msg) == [ok |-> FALSE, text |-> <<>>, msg |-> msg]

\* a fetch that swallows the exception and returns an empty transcript
FetchOutcomeSwallows(resp) ==
    IF resp.kind = "ok" THEN Ok(JoinText(resp.segs)) ELSE Ok(<<>>)

\* What extract_transcript_details makes of get_transcript's answer (lines
\* 44-58).  resp.kind is "ok" or the class of the exception raised; only the
\* two imported classes are told apart, every other exception keeps nothing
\* but its str().
FetchOutcome(resp) ==
    IF resp.kind = "ok" THEN Ok(JoinText(resp.segs))
    ELSE IF resp.kind = "TranscriptsDisabled" THEN Err(MsgDisabled)
    ELSE IF resp.kind = "NoTranscriptFound" THEN Err(MsgNoEnglish)
    ELSE Err(WrapFetchError(resp.cause))

\* extract_transcript_details as a whole, given the answer get_transcript
\* would give: the ValueError of line 40 is raised inside the try and is
\* caught by line 56.
ExtractTranscriptDetails(link, resp) ==
    IF ~ExtractVideoId(link).ok
    THEN Err(WrapFetchError(MsgInvalid))
    ELSE FetchOutcome(resp)

\* generate_gemini_content, given the answer of model.generate_content
GenerateGeminiContent(resp) ==
    IF resp.kind = "ok" THEN Ok(resp.text) ELSE Err(WrapGeminiError(resp.cause))

----------------------------------------------------------------------------
(* What the handler writes to the page.                                    *)

El(name, n, msg) == [el |-> name, n |-> n, msg |-> msg]

\* st.error + st.stop of lines 16-17
ConfigError == El("config_error", 0, <<>>)

\* st.warning of line 99
EmptyWarning == El("warning_empty", 0, <<>>)

\* st.success of line 106
SuccessBanner(text) == El("success", Len(text), <<>>)

\* lines 111-114
SummaryBlock(summary) ==
    <<El("divider", 0, <<>>), El("subheader", 0, <<>>), El("summary", 0, summary)>>

\* the if/elif chain of lines 119-130
Classify(msg) ==
    IF Contains(msg, "No English transcript found") THEN "info_no_english"
    ELSE IF Contains(msg, "Transcripts are disabled") THEN "info_disabled"
    ELSE IF Contains(msg, "Invalid YouTube URL") THEN "warning_invalid_url"
    ELSE IF \/ Contains(msg, "403")
            \/ Contains(msg, "429")
            \/ Contains(msg, "API rate limit exceeded")
         THEN "error_rate_limit"
    ELSE IF Contains(msg, "400") /\ Contains(msg, "Gemini API call failed")
         THEN "error_bad_request"
    ELSE "error_generic"

\* the except branch without its guidance element
FailureDisplayBannerOnly(msg) == <<El("error_banner", 0, msg)>>

\* the except branch: st.error(f"Error: ... {e}") and one guidance element
FailureDisplay(msg) ==
    <<El("error_banner", 0, msg), El(Classify(msg), 0, <<>>)>>

\* an except clause that lets the generator's failure through
CaughtButGeneration(kind) == kind # "GenerationFailed"

\* "except Exception as e" (line 116) catches every failure kind
Caught(kind) == TRUE

\* the except branch without st.stop()
StartupNeverStops == FALSE

\* "except KeyError" + st.stop() (lines 15-17)
StartupStops == ~keyPresent

\* the handler without the emptiness test
IsEmptyLinkNever(link) == FALSE

\* "if not youtube_link" (line 98)
IsEmptyLink(link) == link = <<>>

\* a memo that ignores the argument
CacheKeyConstant(link) == <<>>

\* st.cache_data keys the memo by the function's argument (lines 25-26)
CacheKey(link) == link

----------------------------------------------------------------------------
(* The inputs: links the user may submit, what the transcript service may  *)
(* hold, and how the two services may answer.                              *)

MaxCauseLen == 1

IdA == <<"d", "Q", "w", "4", "w", "9", "W", "g", "X", "c", "Q">>
IdB == <<"9", "b", "Z", "k", "p", "7", "q", "1", "9", "f", "0">>
VideoIds == {IdA, IdB}

WatchPrefix ==
    <<"h", "t", "t", "p", "s", ":", "/", "/", "w", "w", "w", ".",
      "y", "o", "u", "t", "u", "b", "e", ".", "c", "o", "m", "/",
      "w", "a", "t", "c", "h", "?">>
ShortPrefix == <<"h", "t", "t", "p", "s", ":", "/", "/">>

LinkWatchA == WatchPrefix \o LitV \o IdA
LinkShortA == ShortPrefix \o LitShort \o IdA
LinkWatchB == WatchPrefix \o LitV \o IdB
LinkNoId == <<"h", "e", "l", "l", "o">>
AppLinks == {LinkWatchA, LinkShortA, LinkWatchB, LinkNoId}

\* lines 38-41 on each of the links above
AppMatch == [l \in AppLinks \cup {<<>>} |-> ExtractVideoId(l)]

TranscriptOne == << <<"h", "e", "l", "l", "o">>, <<"w", "o", "r", "l", "d">> >>
TranscriptTwo == << <<"b", "y", "e">> >>
Transcripts == {TranscriptOne, TranscriptTwo}

RemoteStates ==
    [kind : {"ok"}, segs : Transcripts]
        \cup [kind : {"TranscriptsDisabled", "NoTranscriptFound"}, segs : {<<>>}]

CauseTokens == {"400", "403", "timed out"}

RECURSIVE SeqsUpTo(_, _)
SeqsUpTo(S, n) ==
    IF n = 0 THEN {<<>>}
    ELSE LET shorter == SeqsUpTo(S, n - 1)
         IN  shorter \cup {Append(q, x) : q \in shorter, x \in S}

\* str(e) of an exception the code does not name
Causes == SeqsUpTo(CauseTokens, MaxCauseLen)

\* what get_transcript(video_id) does now: the answer the service holds for
\* the id, or an exception of another class (the service cannot be reached,
\* rate limiting, anything else)
TranscriptResponses(v) ==
    {IF v \in VideoIds
     THEN [kind |-> remote[v].kind, segs |-> remote[v].segs, cause |-> <<>>]
     ELSE [kind |-> "Unknown", segs |-> <<>>, cause |-> <<"video unavailable">>]}
        \cup [kind : {"Unavailable", "Unknown"}, segs : {<<>>}, cause : Causes]

Summaries == {<<"*", " ", "h", "i">>}

\* what model.generate_content does: a response with a text, or an exception
GenResponses ==
    [kind : {"ok"}, text : Summaries, cause : {<<>>}]
        \cup [kind : {"error"}, text : {<<>>}, cause : Causes]

----------------------------------------------------------------------------
(* The application.                                                        *)

NoPure ==
    /\ xIn = [shape |-> "watch", digits |-> <<>>, token |-> <<>>, post |-> <<>>]
    /\ xResult = [done |-> FALSE, ok |-> FALSE, id |-> <<>>]
    /\ fIn = <<>>
    /\ fOut = <<>>

Init ==
    /\ keyPresent \in BOOLEAN
    /\ phase = "Start"
    /\ clicked = FALSE
    /\ youtube_link = <<>>
    /\ cache = [k \in {} |-> <<>>]
    /\ remote \in [VideoIds -> RemoteStates]
    /\ inflight = "none"
    /\ video_id = <<>>
    /\ transcript_text = <<>>
    /\ display = <<>>
    /\ tCalls = 0
    /\ gCalls = 0
    /\ failKind = "none"
    /\ errMsg = <<>>
    /\ svcKind = "none"
    /\ returned = [v \in VideoIds |-> {}]
    /\ stale = [v \in VideoIds |-> FALSE]
    /\ NoPure

\* the script is not blocked in a run
AtRest == phase \in {"Start", "Halted", "Idle", "Success", "Failed", "Crashed"}

\* the previous run rendered the text input and the button (lines 90-97)
UiShown == phase \in {"Idle", "Success", "Failed"}

\* a successful fetch for link returned text
NoteReturned(link, text) ==
    LET m == AppMatch[link]
    IN  IF m.ok /\ m.id \in VideoIds
        THEN [returned EXCEPT ![m.id] = @ \cup {text}]
        ELSE returned

\* the except branch of lines 116-130 for a failure of the given kind
Fails(kind, msg, shown) ==
    /\ failKind' = kind
    /\ errMsg' = msg
    /\ inflight' = "none"
    /\ IF Caught(kind)
       THEN phase' = "Failed" /\ display' = shown \o FailureDisplay(msg)
       ELSE phase' = "Crashed" /\ display' = shown

\* A script run without a click (page load, or any other interaction):
\* lines 13-17, then the page with the button not pressed.
Run ==
    /\ AtRest
    /\ clicked' = FALSE
    /\ tCalls' = 0 /\ gCalls' = 0
    /\ failKind' = "none" /\ errMsg' = <<>> /\ svcKind' = "none"
    /\ inflight' = "none"
    /\ IF StartupStops
       THEN phase' = "Halted" /\ display' = <<ConfigError>>
       ELSE phase' = "Idle" /\ display' = <<>>
    /\ UNCHANGED <<keyPresent, youtube_link, cache, remote, video_id,
                   transcript_text, returned, stale, pureVars>>

\* What every run started by a click does first.  The button exists only
\* when the previous run got past lines 13-17, and this run executes them
\* again before it reaches line 97.
Click(link) ==
    /\ UiShown
    /\ ~StartupStops
    /\ clicked' = TRUE
    /\ youtube_link' = link
    /\ UNCHANGED <<keyPresent, remote, stale, pureVars>>

\* lines 97-99
SubmitEmpty ==
    \E link \in AppLinks \cup {<<>>} :
        /\ Click(link)
        /\ IsEmptyLink(link)
        /\ display' = <<EmptyWarning>>
        /\ phase' = "Idle"
        /\ tCalls' = 0 /\ gCalls' = 0
        /\ failKind' = "none" /\ errMsg' = <<>> /\ svcKind' = "none"
        /\ inflight' = "none"
        /\ UNCHANGED <<cache, video_id, transcript_text, returned>>

\* lines 100-109 when the memo answers line 105: no extraction, no fetch
SubmitCached ==
    \E link \in AppLinks \cup {<<>>} :
        /\ Click(link)
        /\ ~IsEmptyLink(link)
        /\ CacheKey(link) \in DOMAIN cache
        /\ transcript_text' = cache[CacheKey(link)]
        /\ display' = <<SuccessBanner(cache[CacheKey(link)])>>
        /\ svcKind' = "cached"
        /\ returned' = NoteReturned(link, cache[CacheKey(link)])
        /\ tCalls' = 0 /\ gCalls' = 1
        /\ inflight' = "generate"
        /\ phase' = "Generating"
        /\ failKind' = "none" /\ errMsg' = <<>>
        /\ UNCHANGED <<cache, video_id>>

\* lines 100-105 and 38-40, 56-58, 116-130: no identifier in the link
SubmitInvalid ==
    \E link \in AppLinks \cup {<<>>} :
        /\ Click(link)
        /\ ~IsEmptyLink(link)
        /\ CacheKey(link) \notin DOMAIN cache
        /\ ~AppMatch[link].ok
        /\ tCalls' = 0 /\ gCalls' = 0
        /\ svcKind' = "none"
        /\ Fails("InvalidLinkFormat", WrapFetchError(MsgInvalid), <<>>)
        /\ UNCHANGED <<cache, video_id, transcript_text, returned>>

\* lines 100-105 and 38-44: the script blocks in get_transcript(video_id)
SubmitFetch ==
    \E link \in AppLinks \cup {<<>>} :
        /\ Click(link)
        /\ ~IsEmptyLink(link)
        /\ CacheKey(link) \notin DOMAIN cache
        /\ AppMatch[link].ok
        /\ video_id' = AppMatch[link].id
        /\ tCalls' = 1 /\ gCalls' = 0
        /\ svcKind' = "none"
        /\ inflight' = "transcript"
        /\ phase' = "Fetching"
        /\ display' = <<>>
        /\ failKind' = "none" /\ errMsg' = <<>>
        /\ UNCHANGED <<cache, transcript_text, returned>>

\* get_transcript returns and the function returns (lines 44-48, memoized),
\* then lines 106-109: the script blocks in generate_content
TranscriptOk ==
    \E resp \in TranscriptResponses(video_id) :
        /\ phase = "Fetching"
        /\ FetchOutcome(resp).ok
        /\ LET text == FetchOutcome(resp).text
               key == CacheKey(youtube_link)
           IN  /\ cache' = [k \in DOMAIN cache \cup {key} |->
                               IF k = key THEN text ELSE cache[k]]
               /\ transcript_text' = text
               /\ display' = <<SuccessBanner(text)>>
               /\ returned' = IF video_id \in VideoIds
                              THEN [returned EXCEPT ![video_id] = @ \cup {text}]
                              ELSE returned
        /\ svcKind' = resp.kind
        /\ gCalls' = gCalls + 1
        /\ inflight' = "generate"
        /\ phase' = "Generating"
        /\ UNCHANGED <<keyPresent, clicked, youtube_link, remote, video_id,
                       tCalls, failKind, errMsg, stale, pureVars>>

\* get_transcript raises (lines 50-58), then the except branch (116-130)
TranscriptFail ==
    \E resp \in TranscriptResponses(video_id) :
        /\ phase = "Fetching"
        /\ ~FetchOutcome(resp).ok
        /\ svcKind' = resp.kind
        /\ Fails(resp.kind, FetchOutcome(resp).msg, display)
        /\ UNCHANGED <<keyPresent, clicked, youtube_link, cache, remote,
                       video_id, transcript_text, tCalls, gCalls, returned,
                       stale, pureVars>>

\* generate_content returns (lines 76-77), then lines 111-114
GenerateOk ==
    \E resp \in GenResponses :
        /\ phase = "Generating"
        /\ GenerateGeminiContent(resp).ok
        /\ display' = display \o SummaryBlock(GenerateGeminiContent(resp).text)
        /\ inflight' = "none"
        /\ phase' = "Success"
        /\ UNCHANGED <<keyPresent, clicked, youtube_link, cache, remote,
                       video_id, transcript_text, tCalls, gCalls, failKind,
                       errMsg, svcKind, returned, stale, pureVars>>

\* generate_content raises (lines 78-80), then the except branch (116-130)
GenerateFail ==
    \E resp \in GenResponses :
        /\ phase = "Generating"
        /\ ~GenerateGeminiContent(resp).ok
        /\ Fails("GenerationFailed", GenerateGeminiContent(resp).msg, display)
        /\ UNCHANGED <<keyPresent, clicked, youtube_link, cache, remote,
                       video_id, transcript_text, tCalls, gCalls, svcKind,
                       returned, stale, pureVars>>

\* the transcript service comes to hold something else for a video
RemoteChange ==
    \E v \in VideoIds, r \in RemoteStates :
        /\ r # remote[v]
        /\ remote' = [remote EXCEPT ![v] = r]
        /\ returned' = [returned EXCEPT ![v] = {}]
        /\ stale' = [stale EXCEPT ![v] =
                        @ \/ \E k \in DOMAIN cache :
                                 \E l \in AppLinks :
                                     /\ CacheKey(l) = k
                                     /\ AppMatch[l] = [ok |-> TRUE, id |-> v]]
        /\ UNCHANGED <<keyPresent, phase, clicked, youtube_link, cache, inflight,
                       video_id, transcript_text, display, tCalls, gCalls,
                       failKind, errMsg, svcKind, pureVars>>

Next ==
    \/ Run
    \/ SubmitEmpty
    \/ SubmitCached
    \/ SubmitInvalid
    \/ SubmitFetch
    \/ TranscriptOk
    \/ TranscriptFail
    \/ GenerateOk
    \/ GenerateFail
    \/ RemoteChange

Spec == Init /\ [][Next]_vars

\* every remote call returns, with a result or an error
FairSpec ==
    /\ Spec
    /\ WF_vars(TranscriptOk \/ TranscriptFail)
    /\ WF_vars(GenerateOk \/ GenerateFail)

----------------------------------------------------------------------------
(* The identifier extraction on its own (lines 38-41): links of the three  *)
(* shapes the page names, built from their parts.                          *)

MaxDigits == 2

\* an all-digit token, one over "_" and "-", and one that is a character short
IdDigits == <<"1", "2", "3", "4", "5", "6", "7", "8", "9", "0", "1">>
IdMarks == <<"_", "-", "a", "B", "_", "-", "c", "D", "_", "-", "e">>
IdShort == <<"d", "Q", "w", "4", "w", "9", "W", "g", "X", "c">>

Tokens == {IdA, IdB, IdDigits, IdMarks, IdShort}

\* what follows the token: nothing, another parameter, a fragment
Posts == {<<>>, <<"&", "t", "=", "4", "2", "s">>, <<"#", "t", "o", "p">>}

\* the digits between the proxied prefix and the token; none in the example
\* the page gives (line 124)
DigitStrings == SeqsUpTo({"0", "7"}, MaxDigits)

Shapes == {"watch", "short", "proxy"}

ExtractInputs ==
    {x \in [shape : Shapes, digits : DigitStrings, token : Tokens, post : Posts] :
        x.shape # "proxy" => x.digits = <<>>}

\* the link with these parts
BuildLink(x) ==
    (IF x.shape = "watch" THEN WatchPrefix \o LitV
     ELSE IF x.shape = "short" THEN ShortPrefix \o LitShort
     ELSE LitProxy \o x.digits)
        \o x.token \o x.post

InitExtract ==
    /\ keyPresent = TRUE
    /\ phase = "Start"
    /\ clicked = FALSE
    /\ youtube_link = <<>>
    /\ cache = [k \in {} |-> <<>>]
    /\ remote = [v \in VideoIds |->
                    [kind |-> "NoTranscriptFound", segs |-> <<>>]]
    /\ inflight = "none"
    /\ video_id = <<>>
    /\ transcript_text = <<>>
    /\ display = <<>>
    /\ tCalls = 0
    /\ gCalls = 0
    /\ failKind = "none"
    /\ errMsg = <<>>
    /\ svcKind = "none"
    /\ returned = [v \in VideoIds |-> {}]
    /\ stale = [v \in VideoIds |-> FALSE]
    /\ xIn \in ExtractInputs
    /\ xResult = [done |-> FALSE, ok |-> FALSE, id |-> <<>>]
    /\ fIn = <<>>
    /\ fOut = <<>>

ApplyExtract ==
    /\ ~xResult.done
    /\ xResult' = [done |-> TRUE,
                   ok |-> ExtractVideoId(BuildLink(xIn)).ok,
                   id |-> ExtractVideoId(BuildLink(xIn)).id]
    /\ UNCHANGED <<appVars, xIn, fIn, fOut>>

SpecExtract == InitExtract /\ [][ApplyExtract]_vars

----------------------------------------------------------------------------
(* extract_transcript_details on its own (lines 36-58): two calls that     *)
(* fail, and what the caller receives from each.                           *)

\* A failing call: the link, what get_transcript does, and the kind of
\* failure that is.  An exception of a class the code does not name is a
\* TranscriptServiceUnavailable or an UnknownFetchError by its class; its
\* str() is any of Causes.
FailingFetches ==
    {[kind |-> "InvalidLinkFormat", link |-> LinkNoId,
      resp |-> [kind |-> "ok", segs |-> TranscriptOne, cause |-> <<>>]]}
        \cup {[kind |-> k, link |-> LinkWatchA,
               resp |-> [kind |-> k, segs |-> <<>>, cause |-> <<>>]] :
                 k \in {"TranscriptsDisabled", "NoTranscriptFound"}}
        \cup {[kind |-> k, link |-> LinkWatchA,
               resp |-> [kind |-> k, segs |-> <<>>, cause |-> c]] :
                 k \in {"Unavailable", "Unknown"}, c \in Causes}

InitFetcher ==
    /\ keyPresent = TRUE
    /\ phase = "Start"
    /\ clicked = FALSE
    /\ youtube_link = <<>>
    /\ cache = [k \in {} |-> <<>>]
    /\ remote = [v \in VideoIds |->
                    [kind |-> "NoTranscriptFound", segs |-> <<>>]]
    /\ inflight = "none"
    /\ video_id = <<>>
    /\ transcript_text = <<>>
    /\ display = <<>>
    /\ tCalls = 0
    /\ gCalls = 0
    /\ failKind = "none"
    /\ errMsg = <<>>
    /\ svcKind = "none"
    /\ returned = [v \in VideoIds |-> {}]
    /\ stale = [v \in VideoIds |-> FALSE]
    /\ xIn = [shape |-> "watch", digits |-> <<>>, token |-> <<>>, post |-> <<>>]
    /\ xResult = [done |-> FALSE, ok |-> FALSE, id |-> <<>>]
    /\ fIn \in FailingFetches \X FailingFetches
    /\ fOut = <<>>

ApplyFetch ==
    /\ fOut = <<>>
    /\ fOut' = <<ExtractTranscriptDetails(fIn[1].link, fIn[1].resp),
                 ExtractTranscriptDetails(fIn[2].link, fIn[2].resp)>>
    /\ UNCHANGED <<appVars, xIn, xResult, fIn>>

SpecFetcher == InitFetcher /\ [][ApplyFetch]_vars

----------------------------------------------------------------------------
(* C5.  For every link of a recognized shape (canonical watch?v= link,     *)
(* shortened youtu.be link, proxied googleusercontent link as the page's   *)
(* own guidance writes it, with or without digits before the token) that   *)
(* holds a well-formed 11-character token, extraction succeeds and         *)
(* returns exactly that token.                                             *)

WellFormed(x) ==
    /\ Len(x.token) = IdLen
    /\ \A k \in 1..Len(x.token) : x.token[k] \in IdentChars
    /\ x.post = <<>> \/ x.post[1] \notin IdentChars

C5_ExtractReturnsToken ==
    (xResult.done /\ WellFormed(xIn))
        => (xResult.ok /\ xResult.id = xIn.token)

\* the same, leaving out the proxied shape written without digits
C5_ExceptBareProxy ==
    (xResult.done /\ WellFormed(xIn) /\ ~(xIn.shape = "proxy" /\ xIn.digits = <<>>))
        => (xResult.ok /\ xResult.id = xIn.token)

----------------------------------------------------------------------------
(* C3.  Two fetch failures of different kinds are reported to the caller   *)
(* differently: the outcomes of extract_transcript_details differ whenever *)
(* the kinds differ.                                                       *)

C3_KindsDistinguishable ==
    (fOut # <<>> /\ fIn[1].kind # fIn[2].kind) => fOut[1] # fOut[2]

----------------------------------------------------------------------------
(* Claims about the application.                                           *)

Shows(name) == \E i \in 1..Len(display) : display[i].el = name

Guidance ==
    {"info_no_english", "info_disabled", "warning_invalid_url",
     "error_rate_limit", "error_bad_request", "error_generic"}

\* the guidance the spec attaches to a failure kind
GuidanceFor(kind) ==
    IF kind = "InvalidLinkFormat" THEN "warning_invalid_url"
    ELSE IF kind = "TranscriptsDisabled" THEN "info_disabled"
    ELSE "info_no_english"

\* no known phrase occurs in the message: none of the invalid-link,
\* transcripts-disabled, no-transcript-found and rate-limit/access-denied
\* phrases, and not the payload-too-large pair ("400" in a failed Gemini call)
NoKnownPhrase(msg) ==
    /\ ~Contains(msg, "Invalid YouTube URL")
    /\ ~Contains(msg, "Transcripts are disabled")
    /\ ~Contains(msg, "No English transcript found")
    /\ ~Contains(msg, "403")
    /\ ~Contains(msg, "429")
    /\ ~Contains(msg, "API rate limit exceeded")
    /\ ~(Contains(msg, "400") /\ Contains(msg, "Gemini API call failed"))

(* C1.  A submit whose extraction or fetch fails with InvalidLinkFormat,   *)
(* TranscriptsDisabled or NoTranscriptAvailable ends with the guidance of  *)
(* that kind as the one guidance element and without the generic           *)
(* fallback; the generic fallback is shown only for a message in which no  *)
(* known phrase occurs.                                                    *)
C1_SpecificGuidance ==
    /\ (/\ phase = "Failed"
        /\ failKind \in {"InvalidLinkFormat", "TranscriptsDisabled",
                         "NoTranscriptFound"})
         => /\ display = <<El("error_banner", 0, errMsg),
                           El(GuidanceFor(failKind), 0, <<>>)>>
            /\ ~Shows("error_generic")
    /\ Shows("error_generic") => NoKnownPhrase(errMsg)

C1_Witness ==
    /\ phase = "Failed"
    /\ failKind = "TranscriptsDisabled"
    /\ youtube_link = LinkWatchA
    /\ Shows("info_disabled")

(* C2.  A submit with an empty link shows the warning and nothing else:    *)
(* no transcript call, no generation call, nothing in flight, no success   *)
(* or error element, and the page is idle again.                           *)
C2_EmptyLinkOnlyWarns ==
    (clicked /\ youtube_link = <<>>)
        => /\ display = <<EmptyWarning>>
           /\ phase = "Idle"
           /\ tCalls = 0
           /\ gCalls = 0
           /\ inflight = "none"

C2_Witness ==
    /\ clicked
    /\ youtube_link = <<>>
    /\ display = <<EmptyWarning>>
    /\ cache # <<>>

(* C6.  With the API key absent from the secret store, every run stops at  *)
(* the configuration error: the input and the button are never rendered,   *)
(* no submit is accepted and no remote call is made.                       *)
C6_MissingKeyHalts ==
    ~keyPresent
        => /\ phase \in {"Start", "Halted"}
           /\ phase = "Halted" => display = <<ConfigError>>
           /\ phase = "Start" => display = <<>>
           /\ ~UiShown
           /\ ~clicked
           /\ tCalls = 0
           /\ gCalls = 0
           /\ inflight = "none"

C6_Witness ==
    /\ ~keyPresent
    /\ phase = "Halted"
    /\ display = <<ConfigError>>

IsContent(e) == e.el \notin {"divider", "subheader"}

\* the page without the rule and the heading of lines 111-112
Content == SelectSeq(display, IsContent)

(* C8 as stated.  A completed submit shows exactly one of {success         *)
(* confirmation, error banner} and then exactly one of {summary,           *)
(* guidance}; a failed run never shows the success confirmation.           *)
C8_OnePairPerRun ==
    phase \in {"Success", "Failed"}
        => /\ Len(Content) = 2
           /\ Content[1].el \in {"success", "error_banner"}
           /\ Content[2].el \in {"summary"} \cup Guidance
           /\ Content[1].el = "success" <=> phase = "Success"
           /\ phase = "Failed" => ~Shows("success")

(* C8 as amended.  A run that ends in Success shows the success            *)
(* confirmation with the transcript's character length and then the        *)
(* summary.  A run that fails in the extraction or the fetch shows the     *)
(* error banner and then one guidance element, and no success              *)
(* confirmation.  A run in which the generator fails after a fetched       *)
(* transcript shows the success confirmation (already written when the     *)
(* generator is called), then the error banner, then one guidance element. *)
(* The summary appears only in a run that ends in Success.                 *)
C8_DisplayByOutcome ==
    /\ phase = "Success"
         => /\ Len(Content) = 2
            /\ Content[1] = El("success", Len(transcript_text), <<>>)
            /\ Content[2].el = "summary"
    /\ (phase = "Failed" /\ failKind # "GenerationFailed")
         => /\ Len(Content) = 2
            /\ Content[1] = El("error_banner", 0, errMsg)
            /\ Content[2].el \in Guidance
    /\ (phase = "Failed" /\ failKind = "GenerationFailed")
         => /\ Len(Content) = 3
            /\ Content[1] = El("success", Len(transcript_text), <<>>)
            /\ Content[2] = El("error_banner", 0, errMsg)
            /\ Content[3].el \in Guidance
    /\ Shows("summary") => phase = "Success"
    /\ (Shows("success") /\ phase \in {"Success", "Failed"})
         => /\ CacheKey(youtube_link) \in DOMAIN cache
            /\ Content[1].n = Len(cache[CacheKey(youtube_link)])

C8_Witness ==
    /\ phase = "Failed"
    /\ failKind = "GenerationFailed"
    /\ Len(display) = 3
    /\ display[1].el = "success"
    /\ display[1].n = 11

\* what the service holds for v, as the text a fetch returns
RemoteTexts(v) ==
    IF remote[v].kind = "ok" THEN {JoinText(remote[v].segs)} ELSE {}

(* C9 as stated.  While the remote transcript of a video is unchanged,     *)
(* every successful fetch for it, memoized or fresh, returns the same      *)
(* text.                                                                   *)
C9_AlwaysIdentical ==
    \A v \in VideoIds : Cardinality(returned[v]) <= 1

(* C9 as amended.  While the remote transcript of a video has not changed  *)
(* since a link for it was first memoized in this process run, every       *)
(* successful fetch for it returns the same text, the join of what the     *)
(* service holds, whether the memo (keyed by the raw link) or a fresh      *)
(* query answers.  A memoized entry has no expiry, so after a change the   *)
(* memo keeps answering with the old text.                                 *)
C9_IdenticalUntilStale ==
    \A v \in VideoIds :
        ~stale[v]
            => /\ returned[v] \subseteq RemoteTexts(v)
               /\ \A l \in AppLinks :
                      (AppMatch[l] = [ok |-> TRUE, id |-> v] /\ l \in DOMAIN cache)
                          => cache[l] \in RemoteTexts(v)

C9_Witness ==
    /\ ~stale[IdA]
    /\ svcKind = "cached"
    /\ youtube_link = LinkWatchA
    /\ LinkShortA \in DOMAIN cache
    /\ returned[IdA] = {JoinText(TranscriptOne)}
    /\ phase = "Success"

(* C10.  One submission runs extraction, fetch, generation in that order   *)
(* and without retry: at most one transcript call, issued only for the     *)
(* identifier extracted from the link; at most one generation call, issued *)
(* only once the fetch has returned a transcript; a failed run has nothing *)
(* in flight and made no call after the step that failed.                  *)
C10_LinearNoRetry ==
    /\ tCalls <= 1
    /\ gCalls <= 1
    /\ tCalls = 1
         => /\ AppMatch[youtube_link].ok
            /\ video_id = AppMatch[youtube_link].id
    /\ gCalls = 1 => svcKind \in {"ok", "cached"}
    /\ svcKind = "ok" => tCalls = 1
    /\ phase = "Fetching" => (inflight = "transcript" /\ gCalls = 0)
    /\ phase = "Generating" => inflight = "generate"
    /\ phase = "Failed"
         => /\ inflight = "none"
            /\ failKind = "InvalidLinkFormat" => (tCalls = 0 /\ gCalls = 0)
            /\ failKind \in {"TranscriptsDisabled", "NoTranscriptFound",
                             "Unavailable", "Unknown"}
                 => (tCalls = 1 /\ gCalls = 0)
            /\ failKind = "GenerationFailed" => gCalls = 1

C10_Witness ==
    /\ phase = "Failed"
    /\ failKind = "Unavailable"
    /\ tCalls = 1
    /\ gCalls = 0

\* a remote call is outstanding: the run is blocked between submit and result
Submitted == phase \in {"Fetching", "Generating"}

\* a click on the button starts a run
AcceptsSubmit ==
    ENABLED (SubmitEmpty \/ SubmitCached \/ SubmitInvalid \/ SubmitFetch)

\* the steps of Idle -> Submitted -> {Success, Failed} -> Idle; a run that
\* needs no remote call (empty or unparsable link) ends within its first step,
\* and one answered by the memo starts at the generation call
PhaseSteps ==
    ({"Start"} \X {"Idle", "Halted"})
        \cup ({"Idle", "Success", "Failed"} \X {"Idle", "Fetching", "Generating", "Failed"})
        \cup ({"Fetching"} \X {"Generating", "Failed"})
        \cup ({"Generating"} \X {"Success", "Failed"})

\* a step changes the phase only along PhaseSteps
PhaseStep == phase' = phase \/ <<phase, phase'>> \in PhaseSteps

(* C7.  The orchestrator follows Idle -> Submitted -> {Success, Failed} -> *)
(* Idle.  Given that every remote call returns, a submitted run ends in    *)
(* Success or in Failed; from either, and from Idle, the next interaction  *)
(* is accepted (a rerun to Idle, or a new submit); no failure kind leaves  *)
(* the handler uncaught; while a call is outstanding no submit is accepted *)
(* and exactly that one call is in flight.                                 *)
C7_StateMachine ==
    /\ [](phase # "Crashed")
    /\ [](Submitted <=> inflight # "none")
    /\ [](Submitted => ~AcceptsSubmit)
    /\ [](phase \in {"Idle", "Success", "Failed"} => (AcceptsSubmit /\ ENABLED Run))
    /\ [][PhaseStep]_vars
    /\ (Submitted ~> phase \in {"Success", "Failed"})

C7_Witness ==
    /\ phase = "Success"
    /\ clicked
    /\ tCalls = 1
    /\ gCalls = 1
    /\ inflight = "none"

====
